---- MODULE Spec2Model ----
(***************************************************************************)
(* Checkers rules engine (src/board.py): move generation with the          *)
(* mandatory-capture rule, the recursive jump-chain search with mid-chain  *)
(* promotion, and move application.                                        *)
(***************************************************************************)
EXTENDS Integers, Sequences, FiniteSets, TLC

VARIABLES
    board,        \* self.board: the 8x8 grid of glyphs
    to_move,      \* self.to_move: "r" or "b"
    moves,        \* the list returned by the last move-generation call
    last,         \* the last operation called on the board
    query,        \* <<r, c>> of the last per-piece call, else << >>
    applied,      \* << m >>, m the move of the last execute_move, else << >>
    via_all,      \* every move applied so far came from get_possible_moves
    ply,          \* number of execute_move calls so far
    stack,        \* call frames of a jump-chain search in progress
    final_moves   \* the final_moves list of a search in progress

vars == <<board, to_move, moves, last, query, applied, via_all, ply, stack,
          final_moves>>

\* ---------------------------------------------------- constants and bounds
\* Board side: range(8) and is_within_bounds.
N == 8

\* Number of execute_move calls followed in one behaviour.
MaxPly == 3

\* Number of pieces on a generated board.
MaxPieces == 3

Rows == 0 .. (N - 1)

Glyphs == {" ", "r", "R", "b", "B"}

\* ------------------------------------------------------- string helpers
\* str.lower() on a cell glyph.
Lower(g) == IF g = "R" THEN "r" ELSE IF g = "B" THEN "b" ELSE g

\* str.upper() on a cell glyph.
Upper(g) == IF g = "r" THEN "R" ELSE IF g = "b" THEN "B" ELSE g

\* str.isupper() on a cell glyph: false for the blank.
IsUpper(g) == g \in {"R", "B"}

\* `x in list`
InSeq(x, s) == \E i \in 1 .. Len(s) : s[i] = x

\* ------------------------------------------------------------------ Move
\* Move.__init__: path, start, end, captured (None or [] both give []).
Move(path, captured_coords) ==
    [path |-> path,
     start |-> path[1],
     end |-> path[Len(path)],
     captured |-> captured_coords]

\* --------------------------------------------------------------- layouts
EmptyBoard == [r \in Rows |-> [c \in Rows |-> " "]]

\* A caller-supplied layout (CheckersBoard(board=...)): the pieces of P,
\* each <<row, col, glyph>>, on an otherwise empty grid.
Layout(P) ==
    [r \in Rows |-> [c \in Rows |->
        IF \E p \in P : p[1] = r /\ p[2] = c
        THEN (CHOOSE p \in P : p[1] = r /\ p[2] = c)[3]
        ELSE " "]]

\* _create_board with the two branches of the column test exchanged.
CreateBoardOddFirst ==
    [r \in Rows |-> [c \in Rows |->
        IF c % 2 = 1
        THEN (IF r = 0 \/ r = 2 THEN "b" ELSE IF r = 6 THEN "r" ELSE " ")
        ELSE (IF r = 1 THEN "b" ELSE IF r = 5 \/ r = 7 THEN "r" ELSE " ")]]

\* _create_board: the standard starting layout.
CreateBoard ==
    [r \in Rows |-> [c \in Rows |->
        IF c % 2 = 0
        THEN (IF r = 0 \/ r = 2 THEN "b" ELSE IF r = 6 THEN "r" ELSE " ")
        ELSE (IF r = 1 THEN "b" ELSE IF r = 5 \/ r = 7 THEN "r" ELSE " ")]]

\* ------------------------------------------------------------ directions
\* _get_directions_for_piece with the two colours' row directions swapped.
GetDirectionsSwapped(piece) ==
    IF piece = "r" THEN << <<1, -1>>, <<1, 1>> >>
    ELSE IF piece = "b" THEN << <<-1, -1>>, <<-1, 1>> >>
    ELSE IF piece = "R" \/ piece = "B"
         THEN << <<-1, -1>>, <<-1, 1>>, <<1, -1>>, <<1, 1>> >>
    ELSE << >>

\* _get_directions_for_piece with a king given its man's directions.
GetDirectionsKingsAsMen(piece) ==
    IF piece = "r" \/ piece = "R" THEN << <<-1, -1>>, <<-1, 1>> >>
    ELSE IF piece = "b" \/ piece = "B" THEN << <<1, -1>>, <<1, 1>> >>
    ELSE << >>

\* _get_directions_for_piece
GetDirectionsForPiece(piece) ==
    IF piece = "r" THEN << <<-1, -1>>, <<-1, 1>> >>
    ELSE IF piece = "b" THEN << <<1, -1>>, <<1, 1>> >>
    ELSE IF piece = "R" \/ piece = "B"
         THEN << <<-1, -1>>, <<-1, 1>>, <<1, -1>>, <<1, 1>> >>
    ELSE << >>

\* is_within_bounds
IsWithinBounds(row, col) == 0 <= row /\ row < N /\ 0 <= col /\ col < N

\* ------------------------------------------------------ jump-chain search
\* The direction test without the test that the landing cell is empty.
CanHopOntoAny(b, tm, r, c, dr, dc, captured) ==
    /\ IsWithinBounds(r + 2 * dr, c + 2 * dc)
    /\ Lower(b[r + dr][c + dc]) \notin {" ", tm}
    /\ ~InSeq(<<r + dr, c + dc>>, captured)

\* The direction test looking for the landing cell, not the jumped cell,
\* among the cells already captured.
CanHopChecksLanding(b, tm, r, c, dr, dc, captured) ==
    /\ ~InSeq(<<r + 2 * dr, c + 2 * dc>>, captured)
    /\ IsWithinBounds(r + 2 * dr, c + 2 * dc)
    /\ b[r + 2 * dr][c + 2 * dc] = " "
    /\ Lower(b[r + dr][c + dc]) \notin {" ", tm}

\* The direction test without the check of the cells already captured.
CanHopIgnoringCaptured(b, tm, r, c, dr, dc, captured) ==
    /\ IsWithinBounds(r + 2 * dr, c + 2 * dc)
    /\ b[r + 2 * dr][c + 2 * dc] = " "
    /\ Lower(b[r + dr][c + dc]) \notin {" ", tm}

\* The direction test with any piece, of either side, as the jumped piece.
CanHopOverAny(b, tm, r, c, dr, dc, captured) ==
    /\ ~InSeq(<<r + dr, c + dc>>, captured)
    /\ IsWithinBounds(r + 2 * dr, c + 2 * dc)
    /\ b[r + 2 * dr][c + 2 * dc] = " "
    /\ Lower(b[r + dr][c + dc]) # " "

\* The test of one direction in the loop of _find_jump_sequences_recursive:
\* the jumped cell is not already captured, the landing cell is on the
\* board and empty, and the jumped cell holds an opponent piece.
CanHop(b, tm, r, c, dr, dc, captured) ==
    /\ ~InSeq(<<r + dr, c + dc>>, captured)
    /\ IsWithinBounds(r + 2 * dr, c + 2 * dc)
    /\ b[r + 2 * dr][c + 2 * dc] = " "
    /\ Lower(b[r + dr][c + dc]) \notin {" ", tm}

\* new_is_king without the promotion on the back rank.
NewIsKingNever(original_piece, is_king, land_r) == is_king

\* new_is_king: the king status for the next hop.
NewIsKing(original_piece, is_king, land_r) ==
    \/ is_king
    \/ (Lower(original_piece) = "r" /\ land_r = 0)
    \/ (Lower(original_piece) = "b" /\ land_r = 7)

\* The base-case test without the check that no jump was found.
RegistersMoveEveryNode(found_jump_from_pos, current_path) ==
    Len(current_path) > 1

\* The base-case test: no jump was found from this position and at least
\* one hop has been made.
RegistersMove(found_jump_from_pos, current_path) ==
    ~found_jump_from_pos /\ Len(current_path) > 1

\* The direction list used at a node of the search.
SearchDirections(b, current_path, is_king) ==
    LET original_piece == b[current_path[1][1]][current_path[1][2]]
        effective_piece == IF is_king THEN Upper(original_piece)
                           ELSE original_piece
    IN  GetDirectionsForPiece(effective_piece)

\* The jumped cell put in front of the cells captured so far.
NewCapturedPrepend(captured, r, c, dr, dc) ==
    <<<<r + dr, c + dc>>>> \o captured

\* new_captured: the cells captured so far followed by the jumped cell.
NewCaptured(captured, r, c, dr, dc) ==
    Append(captured, <<r + dr, c + dc>>)

\* _find_jump_sequences_recursive: the moves appended to final_moves, in
\* the order the depth-first search appends them.
RECURSIVE FindJumpSequencesRecursive(_, _, _, _, _)
FindJumpSequencesRecursive(b, tm, current_path, captured, is_king) ==
    LET r == current_path[Len(current_path)][1]
        c == current_path[Len(current_path)][2]
        original_piece == b[current_path[1][1]][current_path[1][2]]
        directions == SearchDirections(b, current_path, is_king)
        Hop(i) == CanHop(b, tm, r, c, directions[i][1], directions[i][2],
                         captured)
        Branch(i) ==
            IF Hop(i)
            THEN FindJumpSequencesRecursive(
                     b, tm,
                     Append(current_path,
                            <<r + 2 * directions[i][1],
                              c + 2 * directions[i][2]>>),
                     NewCaptured(captured, r, c, directions[i][1],
                                 directions[i][2]),
                     NewIsKing(original_piece, is_king,
                               r + 2 * directions[i][1]))
            ELSE << >>
        RECURSIVE Loop(_)
        Loop(i) == IF i > Len(directions) THEN << >>
                   ELSE Branch(i) \o Loop(i + 1)
        found_jump_from_pos == \E i \in 1 .. Len(directions) : Hop(i)
    IN  Loop(1) \o
        (IF RegistersMove(found_jump_from_pos, current_path)
         THEN << Move(current_path, captured) >>
         ELSE << >>)

\* _get_jumps_for_piece
GetJumpsForPiece(b, tm, r, c) ==
    FindJumpSequencesRecursive(b, tm, << <<r, c>> >>, << >>,
                               IsUpper(b[r][c]))

\* _get_regular_moves_for_piece without the test that the target is empty.
GetRegularMovesOntoAny(b, r, c) ==
    LET directions == GetDirectionsForPiece(b[r][c])
        RECURSIVE Loop(_)
        Loop(i) ==
            IF i > Len(directions) THEN << >>
            ELSE LET new_r == r + directions[i][1]
                     new_c == c + directions[i][2]
                 IN  (IF IsWithinBounds(new_r, new_c)
                      THEN << Move(<< <<r, c>>, <<new_r, new_c>> >>, << >>) >>
                      ELSE << >>) \o Loop(i + 1)
    IN  Loop(1)

\* _get_regular_moves_for_piece
GetRegularMovesForPiece(b, r, c) ==
    LET directions == GetDirectionsForPiece(b[r][c])
        RECURSIVE Loop(_)
        Loop(i) ==
            IF i > Len(directions) THEN << >>
            ELSE LET new_r == r + directions[i][1]
                     new_c == c + directions[i][2]
                 IN  (IF IsWithinBounds(new_r, new_c) /\ b[new_r][new_c] = " "
                      THEN << Move(<< <<r, c>>, <<new_r, new_c>> >>, << >>) >>
                      ELSE << >>) \o Loop(i + 1)
    IN  Loop(1)

\* ------------------------------------------------------- move generation
\* The first scan of get_possible_moves: every piece's jumps, row-major.
AllJumps(b, tm) ==
    LET RECURSIVE Scan(_)
        Scan(k) ==
            IF k = N * N THEN << >>
            ELSE (IF Lower(b[k \div N][k % N]) = tm
                  THEN GetJumpsForPiece(b, tm, k \div N, k % N)
                  ELSE << >>) \o Scan(k + 1)
    IN  Scan(0)

\* The second scan of get_possible_moves: every piece's regular moves.
AllRegulars(b, tm) ==
    LET RECURSIVE Scan(_)
        Scan(k) ==
            IF k = N * N THEN << >>
            ELSE (IF Lower(b[k \div N][k % N]) = tm
                  THEN GetRegularMovesForPiece(b, k \div N, k % N)
                  ELSE << >>) \o Scan(k + 1)
    IN  Scan(0)

\* get_possible_moves without the early return on a jump.
GetPossibleMovesNoForce(b, tm) == AllJumps(b, tm) \o AllRegulars(b, tm)

\* get_possible_moves
GetPossibleMoves(b, tm) ==
    LET all_jumps == AllJumps(b, tm)
    IN  IF all_jumps # << >> THEN all_jumps ELSE AllRegulars(b, tm)

\* get_moves_for_piece with the jump test made over the whole board.
GetMovesForPieceGlobalForce(b, tm, r, c) ==
    IF Lower(b[r][c]) # tm THEN << >>
    ELSE IF AllJumps(b, tm) # << >> THEN GetJumpsForPiece(b, tm, r, c)
    ELSE GetRegularMovesForPiece(b, r, c)

\* get_moves_for_piece without the test of the piece's side.
GetMovesForPieceAnySide(b, tm, r, c) ==
    LET jumps == GetJumpsForPiece(b, tm, r, c)
    IN  IF jumps # << >> THEN jumps
        ELSE GetRegularMovesForPiece(b, r, c)

\* get_moves_for_piece
GetMovesForPiece(b, tm, r, c) ==
    IF Lower(b[r][c]) # tm THEN << >>
    ELSE LET jumps == GetJumpsForPiece(b, tm, r, c)
         IN  IF jumps # << >> THEN jumps
             ELSE GetRegularMovesForPiece(b, r, c)

\* ------------------------------------------------------ move application
\* The loop of execute_move that blanks the captured cells.
RECURSIVE ClearCaptured(_, _)
ClearCaptured(b, captured) ==
    IF captured = << >> THEN b
    ELSE ClearCaptured([b EXCEPT ![captured[1][1]][captured[1][2]] = " "],
                       Tail(captured))

\* execute_move crowning a piece that touched its back rank anywhere on
\* the path.
ExecuteBoardPromoteOnPath(b, move) ==
    LET piece == b[move.start[1]][move.start[2]]
        b1 == ClearCaptured(b, move.captured)
        b2 == [b1 EXCEPT ![move.start[1]][move.start[2]] = " "]
        b3 == [b2 EXCEPT ![move.end[1]][move.end[2]] = piece]
    IN  IF \E k \in 1 .. Len(move.path) :
               \/ (Lower(piece) = "r" /\ move.path[k][1] = 0)
               \/ (Lower(piece) = "b" /\ move.path[k][1] = 7)
        THEN [b3 EXCEPT ![move.end[1]][move.end[2]] = Upper(piece)]
        ELSE b3

\* execute_move without the promotion.
ExecuteBoardNoPromotion(b, move) ==
    LET piece == b[move.start[1]][move.start[2]]
        b1 == ClearCaptured(b, move.captured)
        b2 == [b1 EXCEPT ![move.start[1]][move.start[2]] = " "]
    IN  [b2 EXCEPT ![move.end[1]][move.end[2]] = piece]

\* execute_move leaving the piece on its start cell as well.
ExecuteBoardKeepOrigin(b, move) ==
    LET piece == b[move.start[1]][move.start[2]]
        b1 == ClearCaptured(b, move.captured)
        b3 == [b1 EXCEPT ![move.end[1]][move.end[2]] = piece]
    IN  IF (Lower(piece) = "r" /\ move.end[1] = 0)
           \/ (Lower(piece) = "b" /\ move.end[1] = 7)
        THEN [b3 EXCEPT ![move.end[1]][move.end[2]] = Upper(piece)]
        ELSE b3

\* execute_move without the loop that blanks the captured cells.
ExecuteBoardKeepCaptured(b, move) ==
    LET piece == b[move.start[1]][move.start[2]]
        b2 == [b EXCEPT ![move.start[1]][move.start[2]] = " "]
        b3 == [b2 EXCEPT ![move.end[1]][move.end[2]] = piece]
    IN  IF (Lower(piece) = "r" /\ move.end[1] = 0)
           \/ (Lower(piece) = "b" /\ move.end[1] = 7)
        THEN [b3 EXCEPT ![move.end[1]][move.end[2]] = Upper(piece)]
        ELSE b3

\* execute_move: the grid after the move.
ExecuteBoard(b, move) ==
    LET piece == b[move.start[1]][move.start[2]]
        b1 == ClearCaptured(b, move.captured)
        b2 == [b1 EXCEPT ![move.start[1]][move.start[2]] = " "]
        b3 == [b2 EXCEPT ![move.end[1]][move.end[2]] = piece]
    IN  IF (Lower(piece) = "r" /\ move.end[1] = 0)
           \/ (Lower(piece) = "b" /\ move.end[1] = 7)
        THEN [b3 EXCEPT ![move.end[1]][move.end[2]] = Upper(piece)]
        ELSE b3

\* execute_move: the side to move after the move.
ExecuteToMove(tm) == IF tm = "r" THEN "b" ELSE "r"

\* ----------------------------------------------------------- the layouts
\* test_forced_capture
ForcedCaptureLayout ==
    Layout({<<4, 3, "b">>, <<5, 0, "r">>, <<5, 2, "r">>})

\* test_chain_jump_single_branch
ChainSingleLayout ==
    Layout({<<1, 6, "b">>, <<3, 4, "b">>, <<5, 2, "b">>, <<6, 1, "r">>})

\* test_chain_jump_multiple_branches
ChainBranchLayout ==
    Layout({<<3, 2, "b">>, <<3, 4, "b">>, <<5, 2, "b">>, <<6, 1, "r">>})

\* test_kinging_mid_chain_jump
KingMidChainLayout ==
    Layout({<<1, 2, "b">>, <<1, 4, "b">>, <<2, 1, "r">>})

\* test_king_captures
KingCapturesLayout ==
    Layout({<<2, 2, "b">>, <<2, 3, "b">>, <<3, 3, "R">>, <<4, 2, "b">>,
            <<4, 3, "r">>, <<4, 4, "b">>, <<4, 6, "b">>, <<5, 1, "b">>,
            <<7, 7, "r">>})

\* The layouts of the test suite.
TestLayouts ==
    {ForcedCaptureLayout, ChainSingleLayout, ChainBranchLayout,
     KingMidChainLayout, KingCapturesLayout}

\* Further caller-supplied layouts: a black man promoting in mid-chain, a
\* king inside a ring of four opponents (for either side), a red man
\* promoting in mid-chain with a longer chain behind it, a king between
\* opponents on all sides, and a man with no move at all.
ExtraLayouts ==
    {Layout({<<5, 1, "b">>, <<6, 2, "r">>, <<6, 4, "R">>, <<3, 3, "b">>}),
     Layout({<<4, 2, "R">>, <<3, 3, "b">>, <<3, 5, "b">>, <<5, 5, "B">>,
             <<5, 3, "b">>}),
     Layout({<<4, 2, "B">>, <<3, 3, "r">>, <<3, 5, "r">>, <<5, 5, "r">>,
             <<5, 3, "R">>, <<0, 0, "b">>}),
     Layout({<<2, 0, "r">>, <<1, 1, "b">>, <<1, 3, "b">>, <<3, 5, "b">>,
             <<6, 6, "b">>}),
     Layout({<<4, 4, "R">>, <<3, 3, "b">>, <<5, 5, "b">>, <<5, 3, "B">>,
             <<6, 2, "b">>, <<7, 7, "r">>}),
     Layout({<<1, 0, "r">>, <<0, 1, "b">>})}

\* The cells on which generated layouts place pieces.
FamilySquares ==
    {<<1, 1>>, <<1, 3>>, <<2, 0>>, <<2, 2>>, <<3, 1>>, <<3, 3>>}

\* Every grid with at most k pieces, of any glyph, on FamilySquares.
RECURSIVE Family(_)
Family(k) ==
    IF k = 0 THEN {EmptyBoard}
    ELSE LET smaller == Family(k - 1)
         IN  smaller \cup
             UNION {{[b EXCEPT ![s[1]][s[2]] = g] :
                        g \in Glyphs \ {" "},
                        s \in {t \in FamilySquares : b[t[1]][t[2]] = " "}} :
                    b \in smaller}

\* CheckersBoard(): the standard layout with red to move, or
\* CheckersBoard(board, to_move): a layout and a side given by the caller.
NamedConfigs ==
    {[board |-> CreateBoard, to_move |-> "r"]} \cup
    {[board |-> b, to_move |-> t] :
        b \in TestLayouts \cup ExtraLayouts, t \in {"r", "b"}}

\* CheckersBoard(board, to_move) on the generated layouts.
FamilyConfigs ==
    {[board |-> b, to_move |-> t] :
        b \in Family(MaxPieces), t \in {"r", "b"}}

\* The state after construction from one of the configurations of C.
InitFrom(C) ==
    /\ \E cfg \in C :
          /\ board = cfg.board
          /\ to_move = cfg.to_move
    /\ moves = << >>
    /\ last = "init"
    /\ query = << >>
    /\ applied = << >>
    /\ via_all = TRUE
    /\ ply = 0
    /\ stack = << >>
    /\ final_moves = << >>

\* ------------------------------------------------------------ operations
\* The caller generates once from a position: right after construction or
\* right after execute_move.
Fresh == last \in {"init", "execute_move"}

\* A call of get_possible_moves whose search blanks the cells captured by
\* the first move it returns.
CallGetPossibleMovesClearing ==
    /\ Fresh
    /\ moves' = GetPossibleMoves(board, to_move)
    /\ board' = IF moves' = << >> THEN board
                ELSE ClearCaptured(board, moves'[1].captured)
    /\ last' = "get_possible_moves"
    /\ query' = << >>
    /\ applied' = << >>
    /\ UNCHANGED <<to_move, via_all, ply, stack, final_moves>>

\* A call of get_possible_moves.
CallGetPossibleMoves ==
    /\ Fresh
    /\ moves' = GetPossibleMoves(board, to_move)
    /\ last' = "get_possible_moves"
    /\ query' = << >>
    /\ applied' = << >>
    /\ UNCHANGED <<board, to_move, via_all, ply, stack, final_moves>>

\* A call of get_moves_for_piece(r, c).
CallGetMovesForPiece(r, c) ==
    /\ Fresh
    /\ moves' = GetMovesForPiece(board, to_move, r, c)
    /\ last' = "get_moves_for_piece"
    /\ query' = <<r, c>>
    /\ applied' = << >>
    /\ UNCHANGED <<board, to_move, via_all, ply, stack, final_moves>>

\* A call of execute_move with the i-th move of the list just generated.
CallExecuteMove(i) ==
    /\ ply < MaxPly
    /\ last \in {"get_possible_moves", "get_moves_for_piece"}
    /\ i \in 1 .. Len(moves)
    /\ board' = ExecuteBoard(board, moves[i])
    /\ to_move' = ExecuteToMove(to_move)
    /\ moves' = << >>
    /\ last' = "execute_move"
    /\ query' = << >>
    /\ applied' = << moves[i] >>
    /\ via_all' = (via_all /\ last = "get_possible_moves")
    /\ ply' = ply + 1
    /\ UNCHANGED <<stack, final_moves>>

\* Play: positions are generated from and moves applied.
Init == InitFrom(NamedConfigs)

Next ==
    \/ CallGetPossibleMoves
    \/ \E r \in Rows, c \in Rows : CallGetMovesForPiece(r, c)
    \/ \E i \in 1 .. Len(moves) : CallExecuteMove(i)

Spec == Init /\ [][Next]_vars

\* Move generation alone, on every generated and every named layout.
GenInit == InitFrom(NamedConfigs \cup FamilyConfigs)

GenNext ==
    \/ CallGetPossibleMoves
    \/ \E r \in Rows, c \in Rows : CallGetMovesForPiece(r, c)

GenSpec == GenInit /\ [][GenNext]_vars

\* ------------------------------------------ the search, one step at a time
\* The call frame on top of the stack.
Top == stack[Len(stack)]

\* The directions list of the top frame.
TopDirections == SearchDirections(board, Top.current_path, Top.is_king)

\* Whether the direction the top frame's loop is at is a valid hop.
TopCanHop ==
    LET r == Top.current_path[Len(Top.current_path)][1]
        c == Top.current_path[Len(Top.current_path)][2]
        d == TopDirections[Top.i]
    IN  CanHop(board, to_move, r, c, d[1], d[2], Top.captured)

\* _get_jumps_for_piece(r, c), called for a piece of the side to move: the
\* first call of _find_jump_sequences_recursive.
SearchStart(r, c) ==
    /\ last = "init"
    /\ Lower(board[r][c]) = to_move
    /\ stack' = << [current_path |-> << <<r, c>> >>,
                    captured |-> << >>,
                    is_king |-> IsUpper(board[r][c]),
                    i |-> 1,
                    found |-> FALSE] >>
    /\ final_moves' = << >>
    /\ last' = "search"
    /\ query' = <<r, c>>
    /\ UNCHANGED <<board, to_move, moves, applied, via_all, ply>>

\* One iteration of the loop that finds a valid hop: the recursive call.
SearchHop ==
    /\ last = "search"
    /\ stack # << >>
    /\ Top.i <= Len(TopDirections)
    /\ TopCanHop
    /\ LET r == Top.current_path[Len(Top.current_path)][1]
           c == Top.current_path[Len(Top.current_path)][2]
           d == TopDirections[Top.i]
           original_piece ==
               board[Top.current_path[1][1]][Top.current_path[1][2]]
       IN  stack' =
               Append([stack EXCEPT ![Len(stack)].i = Top.i + 1,
                                    ![Len(stack)].found = TRUE],
                      [current_path |->
                           Append(Top.current_path,
                                  <<r + 2 * d[1], c + 2 * d[2]>>),
                       captured |->
                           NewCaptured(Top.captured, r, c, d[1], d[2]),
                       is_king |-> NewIsKing(original_piece, Top.is_king,
                                             r + 2 * d[1]),
                       i |-> 1,
                       found |-> FALSE])
    /\ UNCHANGED <<board, to_move, moves, last, query, applied, via_all, ply,
                   final_moves>>

\* One iteration of the loop that finds no valid hop.
SearchSkip ==
    /\ last = "search"
    /\ stack # << >>
    /\ Top.i <= Len(TopDirections)
    /\ ~TopCanHop
    /\ stack' = [stack EXCEPT ![Len(stack)].i = Top.i + 1]
    /\ UNCHANGED <<board, to_move, moves, last, query, applied, via_all, ply,
                   final_moves>>

\* The end of the loop: the base case, and the return to the caller. The
\* outermost return hands final_moves to _get_jumps_for_piece's caller.
SearchReturn ==
    /\ last = "search"
    /\ stack # << >>
    /\ Top.i > Len(TopDirections)
    /\ final_moves' =
           IF RegistersMove(Top.found, Top.current_path)
           THEN Append(final_moves, Move(Top.current_path, Top.captured))
           ELSE final_moves
    /\ stack' = SubSeq(stack, 1, Len(stack) - 1)
    /\ IF Len(stack) = 1
       THEN last' = "searched" /\ moves' = final_moves'
       ELSE UNCHANGED <<last, moves>>
    /\ UNCHANGED <<board, to_move, query, applied, via_all, ply>>

SearchStep == SearchHop \/ SearchSkip \/ SearchReturn

SearchInit == InitFrom(NamedConfigs \cup FamilyConfigs)

SearchNext ==
    \/ \E r \in Rows, c \in Rows : SearchStart(r, c)
    \/ SearchHop
    \/ SearchSkip
    \/ SearchReturn

\* The interpreter runs a started call to its end.
SearchSpec == SearchInit /\ [][SearchNext]_vars /\ WF_vars(SearchStep)

\* =========================================================== properties
\* The rules of the game as the properties state them, written apart from
\* the generator above.
Cells == Rows \X Rows

At(b, p) == b[p[1]][p[2]]

Kings == {"R", "B"}

SideGlyphs(tm) == IF tm = "r" THEN {"r", "R"} ELSE {"b", "B"}

OppGlyphs(tm) == IF tm = "r" THEN {"b", "B"} ELSE {"r", "R"}

OnBoard(p) == p[1] \in Rows /\ p[2] \in Rows

Diagonals == {<<-1, -1>>, <<-1, 1>>, <<1, -1>>, <<1, 1>>}

\* A man moves towards the opponent's back rank, a king along any diagonal.
LegalDirs(g) ==
    IF g \in Kings THEN Diagonals
    ELSE IF g = "r" THEN {d \in Diagonals : d[1] = -1}
    ELSE IF g = "b" THEN {d \in Diagonals : d[1] = 1}
    ELSE {}

\* The opponent's back rank for the piece g.
PromotionRow(g) == IF g \in {"r", "R"} THEN 0 ELSE N - 1

Step(p, d, k) == <<p[1] + k * d[1], p[2] + k * d[2]>>

SeqSet(s) == {s[k] : k \in 1 .. Len(s)}

\* A hop from p in direction d: over an adjacent opponent piece not in the
\* set capt, onto an empty cell of the board two steps away.
ValidHop(b, tm, p, d, capt) ==
    /\ OnBoard(Step(p, d, 2))
    /\ At(b, Step(p, d, 2)) = " "
    /\ At(b, Step(p, d, 1)) \in OppGlyphs(tm)
    /\ Step(p, d, 1) \notin capt

OwnCells(b, tm) == {p \in Cells : At(b, p) \in SideGlyphs(tm)}

HasCapture(b, tm, p) ==
    \E d \in LegalDirs(At(b, p)) : ValidHop(b, tm, p, d, {})

HasSimple(b, p) ==
    \E d \in LegalDirs(At(b, p)) :
        OnBoard(Step(p, d, 1)) /\ At(b, Step(p, d, 1)) = " "

\* The cells a path of hops jumps over.
JumpedCells(path) ==
    {<<(path[k][1] + path[k + 1][1]) \div 2,
       (path[k][2] + path[k + 1][2]) \div 2>> : k \in 1 .. Len(path) - 1}

\* The piece moving along path is a king from path[1] on, or becomes one by
\* landing on its promotion row at one of path[2 .. k].
KingAt(b, path, k) ==
    \/ At(b, path[1]) \in Kings
    \/ \E j \in 2 .. k : path[j][1] = PromotionRow(At(b, path[1]))

\* The directions open to the piece at the end of path.
ChainDirs(b, path) ==
    IF KingAt(b, path, Len(path)) THEN Diagonals
    ELSE LegalDirs(At(b, path[1]))

\* The hops that continue the chain path.
Hops(b, tm, path) ==
    {d \in ChainDirs(b, path) :
        ValidHop(b, tm, path[Len(path)], d, JumpedCells(path))}

\* Every chain of hops that extends one of the chains of S, S included.
RECURSIVE AllChains(_, _, _)
AllChains(b, tm, S) ==
    IF S = {} THEN {}
    ELSE S \cup
         AllChains(b, tm,
                   UNION {{Append(q, Step(q[Len(q)], d, 2)) :
                              d \in Hops(b, tm, q)} : q \in S})

\* The chains from p of at least one hop that cannot be continued.
MaximalChains(b, tm, p) ==
    {q \in AllChains(b, tm, {<<p>>}) : Len(q) > 1 /\ Hops(b, tm, q) = {}}

IsProperPrefix(s, t) == Len(s) < Len(t) /\ SubSeq(t, 1, Len(s)) = s

Generated == last \in {"get_possible_moves", "get_moves_for_piece"}

\* C1: forced capture is global. After get_possible_moves, if any piece of
\* the side to move has a capturing hop, every returned move captures.
ForcedCaptureGlobal ==
    (last = "get_possible_moves"
     /\ \E p \in OwnCells(board, to_move) : HasCapture(board, to_move, p))
    => \A i \in 1 .. Len(moves) : moves[i].captured # << >>

\* C1 witness: a capture is available to one piece and a simple step to
\* another, and moves were returned.
ForcedCaptureWitness ==
    /\ last = "get_possible_moves"
    /\ moves # << >>
    /\ \E p, q \in OwnCells(board, to_move) :
          /\ p # q
          /\ HasCapture(board, to_move, p)
          /\ ~HasCapture(board, to_move, q)
          /\ HasSimple(board, q)

\* C2: chain maximality. Every returned capturing move ends where no hop
\* is left, given its captured cells and the king status it has reached;
\* no returned path is a proper prefix of another; every path has at least
\* two positions, and a piece with no hop available gets no capturing move.
ChainMaximality ==
    Generated =>
        /\ \A i \in 1 .. Len(moves) :
              /\ Len(moves[i].path) >= 2
              /\ moves[i].captured # << >> =>
                    /\ HasCapture(board, to_move, moves[i].path[1])
                    /\ \A d \in ChainDirs(board, moves[i].path) :
                          ~ValidHop(board, to_move,
                                    moves[i].path[Len(moves[i].path)], d,
                                    SeqSet(moves[i].captured))
        /\ \A i, j \in 1 .. Len(moves) :
              ~IsProperPrefix(moves[i].path, moves[j].path)

\* C2 witness: a returned chain of two hops or more, whose first landing
\* was therefore not registered as a move of its own.
ChainMaximalityWitness ==
    /\ Generated
    /\ \E i \in 1 .. Len(moves) :
          /\ Len(moves[i].captured) >= 2
          /\ \A j \in 1 .. Len(moves) : Len(moves[j].path) # 2

\* The paths of the returned capturing moves that start at p.
CapturePaths(p) ==
    {moves[i].path :
        i \in {k \in 1 .. Len(moves) :
                  moves[k].captured # << >> /\ moves[k].path[1] = p}}

\* C3: branching completeness. The capturing moves returned for a piece
\* are exactly the maximal chains of hops from its cell, each once.
BranchingCompleteness ==
    /\ last = "get_possible_moves" =>
          \A p \in OwnCells(board, to_move) :
              CapturePaths(p) = MaximalChains(board, to_move, p)
    /\ (last = "get_moves_for_piece"
        /\ query \in OwnCells(board, to_move)) =>
          CapturePaths(query) = MaximalChains(board, to_move, query)
    /\ Generated =>
          \A i, j \in 1 .. Len(moves) :
              i # j => moves[i].path # moves[j].path

\* C3 witness: two returned chains from one piece that share their first
\* hop and part afterwards.
BranchingWitness ==
    /\ last = "get_possible_moves"
    /\ \E i, j \in 1 .. Len(moves) :
          /\ Len(moves[i].path) >= 3
          /\ Len(moves[j].path) >= 3
          /\ moves[i].path[1] = moves[j].path[1]
          /\ moves[i].path[2] = moves[j].path[2]
          /\ moves[i].path[3] # moves[j].path[3]

\* The step-wise search and the recursive operator return the same list.
SearchAgrees ==
    last = "searched" =>
        moves = GetJumpsForPiece(board, to_move, query[1], query[2])

\* The direction of hop k of path.
HopDir(path, k) ==
    <<(path[k + 1][1] - path[k][1]) \div 2,
      (path[k + 1][2] - path[k][2]) \div 2>>

\* C4: mid-chain promotion. At every call of the search the king flag is
\* set exactly when the piece started as a king or has landed on its
\* promotion row earlier in the chain, and the directions tried are the
\* four diagonals in that case and the man's forward diagonals otherwise;
\* so is every hop of every registered move; the board is never written.
MidChainPromotion ==
    /\ [](/\ \A k \in 1 .. Len(stack) :
                /\ stack[k].is_king =
                       KingAt(board, stack[k].current_path,
                              Len(stack[k].current_path))
                /\ SeqSet(SearchDirections(board, stack[k].current_path,
                                           stack[k].is_king))
                       = ChainDirs(board, stack[k].current_path)
          /\ \A i \in 1 .. Len(final_moves) :
                \A k \in 1 .. Len(final_moves[i].path) - 1 :
                    HopDir(final_moves[i].path, k) \in
                        (IF KingAt(board, final_moves[i].path, k)
                         THEN Diagonals
                         ELSE LegalDirs(At(board, final_moves[i].path[1]))))
    /\ [][board' = board /\ to_move' = to_move]_vars

\* C4 witness: a registered move of a man that lands on its promotion row
\* and hops on from there, away from that row.
MidChainPromotionWitness ==
    \E i \in 1 .. Len(final_moves) :
        LET path == final_moves[i].path
        IN  /\ At(board, path[1]) \in {"r", "b"}
            /\ \E k \in 2 .. Len(path) - 1 :
                  /\ path[k][1] = PromotionRow(At(board, path[1]))
                  /\ HopDir(path, k) \notin LegalDirs(At(board, path[1]))

\* The opponent pieces on the board.
OpponentCells(b, tm) == {p \in Cells : At(b, p) \in OppGlyphs(tm)}

\* C7: the jump-chain search terminates, and no explored chain has more
\* hops than there are opponent pieces: each hop captures one opponent
\* cell that the chain has not captured before.
SearchTerminates ==
    /\ [](\A k \in 1 .. Len(stack) :
             /\ Len(stack[k].captured) = Len(stack[k].current_path) - 1
             /\ Cardinality(SeqSet(stack[k].captured))
                    = Len(stack[k].captured)
             /\ SeqSet(stack[k].captured) \subseteq
                    OpponentCells(board, to_move)
             /\ Len(stack[k].current_path) - 1
                    <= Cardinality(OpponentCells(board, to_move)))
    /\ (last = "search") ~> (last = "searched")

\* C7 witness: a finished search from a king that branched and captured
\* three pieces in one chain.
SearchTerminatesWitness ==
    /\ last = "searched"
    /\ At(board, query) \in Kings
    /\ Len(final_moves) >= 2
    /\ \E i \in 1 .. Len(final_moves) : Len(final_moves[i].captured) >= 3

\* The glyph a moved piece g shows after landing on row end_r.
LandedGlyph(g, end_r) ==
    IF g = "r" /\ end_r = 0 THEN "R"
    ELSE IF g = "b" /\ end_r = N - 1 THEN "B"
    ELSE g

\* C5: apply correctness. execute_move on a move returned by
\* get_possible_moves for the current board leaves every captured cell and
\* the origin empty, puts the piece (a king if a man lands on its promotion
\* row) on the destination, and hands the move to the other side.
ApplyCorrectness ==
    [][(last = "get_possible_moves" /\ last' = "execute_move") =>
          LET m == applied'[1]
          IN  /\ InSeq(m, moves)
              /\ \A k \in 1 .. Len(m.captured) :
                    At(board', m.captured[k]) = " "
              /\ At(board', m.path[1]) = " "
              /\ At(board', m.path[Len(m.path)])
                    = LandedGlyph(At(board, m.path[1]),
                                  m.path[Len(m.path)][1])
              /\ {to_move, to_move'} = {"r", "b"}]_vars

\* C5 witness: a chain of captures has been applied and the piece stands
\* crowned on row 0.
ApplyCorrectnessWitness ==
    /\ last = "execute_move"
    /\ via_all
    /\ Len(applied[1].captured) >= 2
    /\ applied[1].end[1] = 0
    /\ At(board, applied[1].end) = "R"
    /\ to_move = "b"

\* The paths test_initial_moves expects.
OpeningPaths ==
    {<< <<5, 1>>, <<4, 0>> >>, << <<5, 1>>, <<4, 2>> >>,
     << <<5, 3>>, <<4, 2>> >>, << <<5, 3>>, <<4, 4>> >>,
     << <<5, 5>>, <<4, 4>> >>, << <<5, 5>>, <<4, 6>> >>,
     << <<5, 7>>, <<4, 6>> >>}

\* C6: the initial position. The board built by default has 12 black men
\* on rows 0-2 and 12 red men on rows 5-7 with red to move, and
\* get_possible_moves returns exactly 7 moves, each one step from a red
\* man on row 5 to an empty cell of row 4, without captures.
InitialPosition ==
    (last = "get_possible_moves" /\ ply = 0 /\ board = CreateBoard
     /\ to_move = "r") =>
        /\ \A p \in Cells :
              At(board, p) =
                  (IF (p[1] + p[2]) % 2 = 0 /\ p[1] <= 2 THEN "b"
                   ELSE IF (p[1] + p[2]) % 2 = 0 /\ p[1] >= 5 THEN "r"
                   ELSE " ")
        /\ Cardinality({p \in Cells : At(board, p) = "b"}) = 12
        /\ Cardinality({p \in Cells : At(board, p) = "r"}) = 12
        /\ Len(moves) = 7
        /\ {moves[i].path : i \in 1 .. Len(moves)} = OpeningPaths
        /\ \A i \in 1 .. Len(moves) :
              /\ Len(moves[i].path) = 2
              /\ moves[i].path[1][1] = 5
              /\ At(board, moves[i].path[1]) = "r"
              /\ moves[i].path[2][1] = 4
              /\ moves[i].path[2][2] - moves[i].path[1][2] \in {-1, 1}
              /\ At(board, moves[i].path[2]) = " "
              /\ moves[i].captured = << >>

\* C6 witness: get_possible_moves has been called on the default board.
InitialPositionWitness ==
    /\ last = "get_possible_moves"
    /\ ply = 0
    /\ board = CreateBoard
    /\ to_move = "r"
    /\ Len(moves) = 7

\* The indices of the returned moves that start at p.
MovesFrom(p) == {i \in 1 .. Len(moves) : moves[i].path[1] = p}

\* The diagonals along which the piece at p has a capturing first hop.
CaptureDirs(b, tm, p) == {d \in Diagonals : ValidHop(b, tm, p, d, {})}

\* C8: king bidirectional capture. After get_possible_moves, every
\* diagonal along which a king of the side to move can capture is the
\* first hop of a returned move, and different directions give different
\* moves.
KingBidirectionalCapture ==
    last = "get_possible_moves" =>
        \A p \in OwnCells(board, to_move) :
            At(board, p) \in Kings =>
                /\ \A d \in CaptureDirs(board, to_move, p) :
                      \E i \in MovesFrom(p) :
                          /\ moves[i].path[2] = Step(p, d, 2)
                          /\ moves[i].captured[1] = Step(p, d, 1)
                /\ Cardinality(MovesFrom(p))
                      >= Cardinality(CaptureDirs(board, to_move, p))

\* C8 witness: a king with a capture towards row 0 and one away from it.
KingBidirectionalWitness ==
    /\ last = "get_possible_moves"
    /\ \E p \in OwnCells(board, to_move) :
          /\ At(board, p) \in Kings
          /\ \E d, e \in CaptureDirs(board, to_move, p) :
                d[1] = -1 /\ e[1] = 1

\* C9: the terminal condition. get_possible_moves returns the empty list
\* exactly when no piece of the side to move has a capturing hop or a
\* one-step move to an empty cell.
TerminalCondition ==
    last = "get_possible_moves" =>
        (moves = << >>
         <=> \A p \in OwnCells(board, to_move) :
                ~HasCapture(board, to_move, p) /\ ~HasSimple(board, p))

\* C9 witness: the side to move has pieces and none of them can move.
TerminalConditionWitness ==
    /\ last = "get_possible_moves"
    /\ moves = << >>
    /\ OwnCells(board, to_move) # {}

\* C10: get_moves_for_piece on a cell that is empty or holds a piece of the
\* other side returns the empty list, and the call leaves the grid and the
\* side to move as they were.
NonOwnedQuery ==
    /\ []((last = "get_moves_for_piece"
           /\ query \notin OwnCells(board, to_move)) => moves = << >>)
    /\ [][last' = "get_moves_for_piece" =>
             board' = board /\ to_move' = to_move]_vars

\* C10 witness: the query named a piece of the other side that could step
\* or capture if it were its turn.
NonOwnedQueryWitness ==
    /\ last = "get_moves_for_piece"
    /\ At(board, query) \in OppGlyphs(to_move)
    /\ HasSimple(board, query)
    /\ moves = << >>

\* The paths of a list of moves.
PathsOf(ms) == {ms[i].path : i \in 1 .. Len(ms)}

\* The one-step moves open to the piece at p.
SimplePaths(b, p) ==
    {<<p, Step(p, d, 1)>> :
        d \in {e \in LegalDirs(At(b, p)) :
                  OnBoard(Step(p, e, 1)) /\ At(b, Step(p, e, 1)) = " "}}

\* C11: get_moves_for_piece forces captures for the queried piece only. For
\* a piece of the side to move it returns that piece's capturing moves if
\* it has any and its simple moves otherwise, whatever the other pieces can
\* do; so when another piece has a capture and the queried one has none,
\* the returned simple moves are not among those of get_possible_moves;
\* and when no piece has a capture, get_possible_moves returns the union
\* of the per-piece results.
PerPieceForcedCapture ==
    /\ (last = "get_moves_for_piece"
        /\ query \in OwnCells(board, to_move)) =>
          /\ HasCapture(board, to_move, query) =>
                /\ moves # << >>
                /\ PathsOf(moves) = MaximalChains(board, to_move, query)
                /\ \A i \in 1 .. Len(moves) : moves[i].captured # << >>
          /\ ~HasCapture(board, to_move, query) =>
                /\ PathsOf(moves) = SimplePaths(board, query)
                /\ \A i \in 1 .. Len(moves) : moves[i].captured = << >>
          /\ (~HasCapture(board, to_move, query)
              /\ \E p \in OwnCells(board, to_move) :
                    HasCapture(board, to_move, p)) =>
                PathsOf(moves)
                    \cap PathsOf(GetPossibleMoves(board, to_move)) = {}
    /\ (last = "get_possible_moves"
        /\ \A p \in OwnCells(board, to_move) :
              ~HasCapture(board, to_move, p)) =>
          PathsOf(moves) =
              UNION {PathsOf(GetMovesForPiece(board, to_move, p[1], p[2])) :
                        p \in OwnCells(board, to_move)}

\* C11 witness: the queried piece has no capture, another piece of its side
\* has one, and the query returned simple moves.
PerPieceForcedCaptureWitness ==
    /\ last = "get_moves_for_piece"
    /\ query \in OwnCells(board, to_move)
    /\ ~HasCapture(board, to_move, query)
    /\ \E p \in OwnCells(board, to_move) : HasCapture(board, to_move, p)
    /\ moves # << >>

\* C12: promotion at apply time looks at the destination row only. After
\* execute_move the moved piece is a king exactly when it was a king before
\* or its destination row is its promotion row, and it keeps its colour; a
\* man whose chain passed over the back rank and ended elsewhere stays a
\* man.
PromotionByDestination ==
    [][last' = "execute_move" =>
          LET m == applied'[1]
              g == At(board, m.path[1])
              h == At(board', m.path[Len(m.path)])
          IN  /\ g \in SideGlyphs(to_move)
              /\ h \in SideGlyphs(to_move)
              /\ h \in Kings <=>
                    (g \in Kings
                     \/ m.path[Len(m.path)][1] = PromotionRow(g))]_vars

\* C12 witness: the applied chain of a red man touched row 0 on the way and
\* the piece stands as a man on its destination.
PromotionByDestinationWitness ==
    /\ last = "execute_move"
    /\ via_all
    /\ \E k \in 2 .. Len(applied[1].path) - 1 : applied[1].path[k][1] = 0
    /\ At(board, applied[1].end) = "r"

NoRepeats(s) == Cardinality(SeqSet(s)) = Len(s)

\* C13: no re-capture within a chain. The captured cells of every explored
\* chain and of every registered move are pairwise distinct: the cell a hop
\* jumps is never one the chain has captured already.
NoRecapture ==
    /\ \A k \in 1 .. Len(stack) : NoRepeats(stack[k].captured)
    /\ \A k \in 2 .. Len(stack) :
          stack[k].captured[Len(stack[k].captured)]
              \notin SeqSet(stack[k - 1].captured)
    /\ \A i \in 1 .. Len(final_moves) : NoRepeats(final_moves[i].captured)
    /\ last = "searched" =>
          \A i \in 1 .. Len(moves) : NoRepeats(moves[i].captured)

\* C13 witness: the loop is at a direction whose jumped cell the chain has
\* captured already, with an empty cell beyond it, so that only the check
\* of the captured cells rejects the hop.
NoRecaptureWitness ==
    /\ last = "search"
    /\ stack # << >>
    /\ Top.i <= Len(TopDirections)
    /\ LET pos == Top.current_path[Len(Top.current_path)]
           d == TopDirections[Top.i]
       IN  /\ Step(pos, d, 1) \in SeqSet(Top.captured)
           /\ ValidHop(board, to_move, pos, d, {})

Midpoint(p, q) == <<(p[1] + q[1]) \div 2, (p[2] + q[2]) \div 2>>

Apart(p, q, k) == \E d \in Diagonals : q = Step(p, d, k)

\* C14: the captured list is consistent with the path. A returned capturing
\* move has one captured cell per hop: the cell midway between the two ends
\* of the hop, which are two diagonal steps apart, holding an opponent
\* piece on the board the move was generated from, in the order of the
\* path. A returned simple move has two positions one diagonal step apart
\* and no captured cell.
CapturedConsistent ==
    Generated =>
        \A i \in 1 .. Len(moves) :
            LET m == moves[i]
            IN  /\ m.start = m.path[1]
                /\ m.end = m.path[Len(m.path)]
                /\ IF m.captured # << >>
                   THEN /\ Len(m.captured) = Len(m.path) - 1
                        /\ \A k \in 1 .. Len(m.captured) :
                              /\ Apart(m.path[k], m.path[k + 1], 2)
                              /\ m.captured[k] =
                                     Midpoint(m.path[k], m.path[k + 1])
                              /\ At(board, m.captured[k])
                                     \in OppGlyphs(to_move)
                   ELSE /\ Len(m.path) = 2
                        /\ Apart(m.path[1], m.path[2], 1)

\* C14 witness: a returned move of three hops whose captured cells are
\* three different cells.
CapturedConsistentWitness ==
    /\ Generated
    /\ \E i \in 1 .. Len(moves) :
          /\ Len(moves[i].path) = 4
          /\ Len(moves[i].captured) = 3
          /\ NoRepeats(moves[i].captured)

\* C15: simple-move generation. When no piece of the side to move has a
\* capture, get_possible_moves returns exactly the one-step moves of the
\* pieces of the side to move, in the directions legal for each piece's
\* kind, onto cells that are on the board and empty, each once and with no
\* captured cell.
SimpleMoveGeneration ==
    (/\ last = "get_possible_moves"
     /\ \A p \in OwnCells(board, to_move) : ~HasCapture(board, to_move, p))
    => /\ PathsOf(moves) =
              UNION {SimplePaths(board, p) : p \in OwnCells(board, to_move)}
       /\ \A i \in 1 .. Len(moves) : moves[i].captured = << >>
       /\ Cardinality(PathsOf(moves)) = Len(moves)

\* C15 witness: simple moves are returned while a piece of the side to move
\* has a legal direction that leaves the board, and a king of that side
\* has a returned move in each row direction.
SimpleMoveGenerationWitness ==
    /\ last = "get_possible_moves"
    /\ \A p \in OwnCells(board, to_move) : ~HasCapture(board, to_move, p)
    /\ moves # << >>
    /\ \E p \in OwnCells(board, to_move) :
          \E d \in LegalDirs(At(board, p)) : ~OnBoard(Step(p, d, 1))
    /\ \E p \in OwnCells(board, to_move) :
          /\ At(board, p) \in Kings
          /\ \E i, j \in 1 .. Len(moves) :
                /\ moves[i].start = p /\ moves[i].end[1] = p[1] - 1
                /\ moves[j].start = p /\ moves[j].end[1] = p[1] + 1

\* C16: move generation is read-only. get_possible_moves and
\* get_moves_for_piece leave every cell of the grid and the side to move
\* unchanged, whatever chains the search explores; execute_move is the only
\* operation that changes them.
GenerationReadOnly ==
    /\ [][last' \in {"get_possible_moves", "get_moves_for_piece"}
              => board' = board /\ to_move' = to_move]_vars
    /\ [][(board' # board \/ to_move' # to_move)
              => last' = "execute_move"]_vars

\* C16 witness: generation has returned a chain of a man that is crowned on
\* the way, while the man still stands on its start cell as a man, every
\* captured cell still holds its opponent piece and the side to move is
\* the man's.
GenerationReadOnlyWitness ==
    /\ Generated
    /\ \E i \in 1 .. Len(moves) :
          LET m == moves[i]
          IN  /\ Len(m.captured) >= 2
              /\ At(board, m.start) \in {"r", "b"}
              /\ At(board, m.start) \in SideGlyphs(to_move)
              /\ \E k \in 2 .. Len(m.path) - 1 :
                    m.path[k][1] = PromotionRow(At(board, m.start))
              /\ \A k \in 1 .. Len(m.captured) :
                    At(board, m.captured[k]) \in OppGlyphs(to_move)

\* The number of pieces of side tm on the board.
PieceCount(b, tm) == Cardinality(OwnCells(b, tm))

\* The most pieces a side has: those of the standard layout.
FullSide == PieceCount(CreateBoard, "r")

\* C17: piece conservation over play. Applying a move taken from
\* get_possible_moves of the current state changes only the origin cell,
\* the destination cell and the captured cells, leaves the mover's piece
\* count unchanged and reduces the opponent's by the number of captured
\* cells, which are empty afterwards; no side ever has more pieces than in
\* the standard layout.
PieceConservation ==
    [][(last = "get_possible_moves" /\ last' = "execute_move") =>
          LET m == applied'[1]
              touched == {m.start, m.end} \cup SeqSet(m.captured)
              opp == ExecuteToMove(to_move)
          IN  /\ \A p \in Cells \ touched : At(board', p) = At(board, p)
              /\ PieceCount(board', to_move) = PieceCount(board, to_move)
              /\ PieceCount(board', opp) =
                     PieceCount(board, opp) - Len(m.captured)
              /\ \A p \in SeqSet(m.captured) : At(board', p) = " "
              /\ At(board', m.start) = " "
              /\ PieceCount(board, "r") <= FullSide
              /\ PieceCount(board, "b") <= FullSide
              /\ PieceCount(board', "r") <= FullSide
              /\ PieceCount(board', "b") <= FullSide]_vars

\* C17 witness: play from the standard layout has applied a capture, which
\* leaves the mover with all its pieces and the opponent with one fewer.
PieceConservationWitness ==
    /\ last = "execute_move" /\ via_all
    /\ Len(applied[1].captured) = 1
    /\ FullSide = 12
    /\ PieceCount(board, ExecuteToMove(to_move)) = FullSide
    /\ PieceCount(board, to_move) = FullSide - 1

\* No man of either colour stands on its promotion row.
NoManOnPromotionRow(b) ==
    \A p \in Cells :
        At(b, p) \in {"r", "b"} => p[1] # PromotionRow(At(b, p))

\* C18: no man rests on its promotion row. In every state reached by
\* applying moves of get_possible_moves, no red man is on row 0 and no
\* black man is on row 7, and a king that moves is still a king of its
\* colour where it lands.
NoManRestsOnPromotionRow ==
    /\ [](via_all => NoManOnPromotionRow(board))
    /\ [][(last = "get_possible_moves" /\ last' = "execute_move") =>
             LET m == applied'[1]
             IN  /\ At(board, m.start) \in Kings
                        => At(board', m.end) = At(board, m.start)
                 /\ \A p \in Cells \ {m.start} :
                        At(board, p) \in Kings
                            => At(board', p) \in {" ", At(board, p)}]_vars

\* C18 witness: the first move applied to a layout has taken a black man
\* from row 6 to row 7, where it stands as a black king.
NoManRestsOnPromotionRowWitness ==
    /\ last = "execute_move" /\ via_all /\ ply = 1
    /\ applied[1].captured = << >>
    /\ applied[1].end[1] = 7
    /\ At(board, applied[1].end) = "B"
    /\ [board EXCEPT ![applied[1].start[1]][applied[1].start[2]] = "b",
                     ![applied[1].end[1]][applied[1].end[2]] = " "]
           \in {cfg.board : cfg \in NamedConfigs}

\* C19: a jump chain never lands on its own start square. In every
\* capturing move returned, the start of the path occurs at no later index,
\* and the destination differs from the origin and from every captured
\* cell: the search reads a board on which the moving piece still stands
\* on its start square.
NeverLandsOnStart ==
    Generated =>
        \A i \in 1 .. Len(moves) :
            LET m == moves[i]
            IN  m.captured # << >> =>
                    /\ \A k \in 2 .. Len(m.path) : m.path[k] # m.path[1]
                    /\ m.end # m.start
                    /\ m.end \notin SeqSet(m.captured)
                    /\ At(board, m.start) # " "

\* C19 witness: a returned king move ends two steps from its start square
\* with an opponent piece it has not captured in between, so that the hop
\* closing the circle is the one not taken.
NeverLandsOnStartWitness ==
    /\ Generated
    /\ \E i \in 1 .. Len(moves) :
          LET m == moves[i]
          IN  /\ Len(m.captured) >= 3
              /\ At(board, m.start) \in Kings
              /\ \E d \in Diagonals :
                    /\ Step(m.end, d, 2) = m.start
                    /\ At(board, Step(m.end, d, 1)) \in OppGlyphs(to_move)
                    /\ Step(m.end, d, 1) \notin SeqSet(m.captured)

====
